---- MODULE Spec2Model ----
(***************************************************************************)
(* Concurrency core of coq: the trigger debouncer / single-flight task     *)
(* supervisor (coq/server/registrants/omnifunc.py, _launch_loop), its      *)
(* gating predicate (_should_cont) and completion cycle (c0), the          *)
(* epoch-tagged reply correlator (coq/lsp/requests/request.py), the        *)
(* timeout-bounded resolve flow (omnifunc.py, _resolve) and the serial     *)
(* executor (coq/shared/executor.py).                                      *)
(*                                                                         *)
(* Each subsystem has its own specification over the same variables; the   *)
(* variables of the other subsystems keep their initial values.            *)
(***************************************************************************)
EXTENDS Integers, Sequences, FiniteSets, TLC

VARIABLES
    \* ---- supervisor (omnifunc.py, _launch_loop) ----
    Q,          \* _Q: the SimpleQueue of (state, manual) triggers
    incoming,   \* nonlocal incoming: None or the trigger c1 received last
    event,      \* asyncio.Event shared by c1 and c2
    lock,       \* asyncio.Lock of c0: 0 when free, else the holding task
    warned,     \* the "SHOULD NOT BE LOCKED" warning has been logged
    task,       \* nonlocal task: 0 for None, else the index of the last task
    tasks,      \* every c0 task created so far, in creation order
    c1pc,       \* position of c1: "get" (thread in _Q.get) or "set"
    c1item,     \* the item the to_thread(_Q.get) call returned to c1
    c2pc,       \* position of c2: "wait" (event.wait) or "cancel" (await cancel)
    sent,       \* history: the triggers comp_func enqueued, in order
    fails,      \* history: for each failure, the number of triggers sent before
    \* ---- reply correlator (request.py) ----
    UIDS,       \* _UIDS: the next value count() hands out
    Sessions,   \* _STATE: method -> _Session (STATE is a reserved word)
    cons,       \* every async_request generator created so far, in call order
    nNotes,     \* history: the number of payloads _lsp_notify ingested
    stale,      \* history: the ordinals of the replies ingested with a uid below
                \* the session's
    \* ---- resolve flow (omnifunc.py, _resolve) ----
    lru,        \* stack.lru: the uids that have a cached completion
    rcalls,     \* number of _resolve calls made
    rpc,        \* position of _resolve: idle, wait, cancel, await, returned, raised
    rmetric,    \* the metric argument of the call
    rtask,      \* the request task go(resolve(...)): none, pending, comp, nil,
                \* failed, cancelling, cancelled
    rraised,    \* history: the resolve coroutine of this call raised
    clock,      \* time elapsed since asyncio.wait was entered
    rresult,    \* the metric _resolve returned
    \* ---- serial executor (executor.py) ----
    eq,         \* self._q: the submissions whose cont is queued, in order
    subs,       \* every submit call so far, in the order of its _q.put
    wpc,        \* position of each worker running _forever: get, run, dead
    wcur,       \* the submission whose cont a worker is running (0: none)
    ran,        \* history: the submissions in the order their f was started
    \* ---- gating predicate (omnifunc.py, _should_cont) ----
    gin,        \* the arguments (state, prev, cur) of the call
    gout,       \* whether _should_cont was called, and what it returned
    \* ---- completion cycle (omnifunc.py, c0) ----
    stChange,   \* change_id of the shared State that state() returns
    cyc,        \* the c0 task: its position, ctx.change_id, the two halves of
                \* gather; atJoin is history: stChange when gather returned
    ncyc,       \* number of c0 tasks run
    shown       \* history: the complete(...) calls made, in order

supVars ==
    <<Q, incoming, event, lock, warned, task, tasks, c1pc, c1item, c2pc, sent,
      fails>>

reqVars == <<UIDS, Sessions, cons, nNotes, stale>>

resVars == <<lru, rcalls, rpc, rmetric, rtask, rraised, clock, rresult>>

exeVars == <<eq, subs, wpc, wcur, ran>>

gateVars == <<gin, gout>>

cycVars == <<stChange, cyc, ncyc, shown>>

vars == <<supVars, reqVars, resVars, exeVars, gateVars, cycVars>>

\* what the steps of one subsystem leave alone
notSup == <<reqVars, resVars, exeVars, gateVars, cycVars>>

notReq == <<supVars, resVars, exeVars, gateVars, cycVars>>

notRes == <<supVars, reqVars, exeVars, gateVars, cycVars>>

notExe == <<supVars, reqVars, resVars, gateVars, cycVars>>

notGate == <<supVars, reqVars, resVars, exeVars, cycVars>>

notCyc == <<supVars, reqVars, resVars, exeVars, gateVars>>

\* ------------------------------------------------------------------ bounds
\* number of comp_func calls explored
MaxTriggers == 3

\* number of async_request calls explored
MaxOpens == 2

\* number of _lsp_notify calls explored
MaxNotify == 2

\* number of _resolve calls explored
MaxResolves == 2

\* stack.settings.clients.lsp.resolve_timeout, in clock ticks
ResolveTimeout == 2

\* number of Executor.submit calls explored
MaxSubmits == 3

\* length of cur.line_before explored
MaxLen == 3

\* number of c0 tasks explored in the completion cycle
MaxCycles == 2

\* number of edits of the buffer explored
MaxEdits == 2

\* number of failures raised in c0 and c2 explored
MaxFailures == 1

\* ------------------------------------------------------------------ values
None == [none |-> TRUE]

\* a trigger is the pair (s, manual) comp_func puts on _Q; every call passes
\* its own State snapshot, identified here by the ordinal of the call
Trigger(k, manual) == [s |-> k, manual |-> manual]

\* positions of a c0 task that has not terminated
Running == {"new", "lockwait", "body"}

\* positions of a c0 task that has terminated
Terminated == {"done", "cancelled"}

NewTask(trig) == [s |-> trig.s, manual |-> trig.manual, pc |-> "new",
                  cancelReq |-> FALSE, sentAtStop |-> 0]

\* ------------------------------------------------------------- supervisor
SupInit ==
    /\ Q = <<>>
    /\ incoming = None
    /\ event = FALSE
    /\ lock = 0
    /\ warned = FALSE
    /\ task = 0
    /\ tasks = <<>>
    /\ c1pc = "get"
    /\ c1item = None
    /\ c2pc = "wait"
    /\ sent = <<>>
    /\ fails = <<>>

\* comp_func: _Q.put((s, manual))
CompFunc(manual) ==
    /\ Len(sent) < MaxTriggers
    /\ Q' = Append(Q, Trigger(Len(sent) + 1, manual))
    /\ sent' = Append(sent, Trigger(Len(sent) + 1, manual))
    /\ UNCHANGED <<incoming, event, lock, warned, task, tasks, c1pc, c1item, c2pc,
                   fails, notSup>>

\* a buggy queue discipline: the newest item is handed out first
QPopLifo(q) == [item |-> q[Len(q)], rest |-> SubSeq(q, 1, Len(q) - 1)]

\* SimpleQueue.get: first in, first out
QPop(q) == [item |-> Head(q), rest |-> Tail(q)]

\* c1, first half: the worker thread's _Q.get returns an item
C1Get ==
    /\ c1pc = "get"
    /\ Q # <<>>
    /\ c1item' = QPop(Q).item
    /\ Q' = QPop(Q).rest
    /\ c1pc' = "set"
    /\ UNCHANGED <<incoming, event, lock, warned, task, tasks, c2pc, sent, fails, notSup>>

\* c1, second half: back on the event loop, incoming = item; event.set()
C1Set ==
    /\ c1pc = "set"
    /\ incoming' = c1item
    /\ event' = TRUE
    /\ c1item' = None
    /\ c1pc' = "get"
    /\ UNCHANGED <<Q, lock, warned, task, tasks, c2pc, sent, fails, notSup>>

\* Task.cancel(): a request; a task that has terminated is left as it is
RequestCancel(ts, t) ==
    IF ts[t].pc \in Running THEN [ts EXCEPT ![t].cancelReq = TRUE] ELSE ts

\* a buggy cancel: the request is made and its completion is not awaited
CancelDoneNoAwait(t) == TRUE

\* await cancel(task) returns once the task has terminated
CancelDone(t) == tasks[t].pc \in Terminated

\* c2: if incoming: task = nvim.loop.create_task(c0(s, manual=manual))
CreateTask ==
    IF incoming # None
    THEN /\ tasks' = Append(tasks, NewTask(incoming))
         /\ task' = Len(tasks) + 1
    ELSE UNCHANGED <<task, tasks>>

\* c2: event.wait() returns; event.clear(); then either the cancellation of
\* the previous task is requested and awaited, or (no previous task) the new
\* task is created in the same step
C2Wake ==
    /\ c2pc = "wait"
    /\ event
    /\ event' = FALSE
    /\ IF task # 0
       THEN /\ tasks' = RequestCancel(tasks, task)
            /\ c2pc' = "cancel"
            /\ UNCHANGED task
       ELSE /\ CreateTask
            /\ UNCHANGED c2pc
    /\ UNCHANGED <<Q, incoming, lock, warned, c1pc, c1item, sent, fails, notSup>>

\* c2: await cancel(task) has returned; the new task is created
C2Resume ==
    /\ c2pc = "cancel"
    /\ CancelDone(task)
    /\ CreateTask
    /\ c2pc' = "wait"
    /\ UNCHANGED <<Q, incoming, event, lock, warned, c1pc, c1item, sent, fails, notSup>>

\* c0 begins: warns if the lock is held, then acquires it (waiting for it
\* when it is held)
C0Start(t) ==
    /\ tasks[t].pc \in {"new", "lockwait"}
    /\ ~tasks[t].cancelReq
    /\ IF lock # 0
       THEN /\ warned' = TRUE
            /\ tasks' = [tasks EXCEPT ![t].pc = "lockwait"]
            /\ UNCHANGED lock
       ELSE /\ lock' = t
            /\ tasks' = [tasks EXCEPT ![t].pc = "body"]
            /\ UNCHANGED warned
    /\ UNCHANGED <<Q, incoming, event, task, c1pc, c1item, c2pc, sent, fails, notSup>>

\* c0 ends: the body ran to its end, or raised and with_suppress logged it;
\* the lock is released
C0Finish(t) ==
    /\ tasks[t].pc = "body"
    /\ ~tasks[t].cancelReq
    /\ tasks' = [tasks EXCEPT ![t].pc = "done", ![t].sentAtStop = Len(sent)]
    /\ lock' = 0
    /\ UNCHANGED <<Q, incoming, event, warned, task, c1pc, c1item, c2pc, sent,
                   fails, notSup>>

\* a buggy unwinding: a cancelled task keeps the lock
ReleaseNever(l, t) == l

\* async with lock, left by an exception: the holder releases the lock
Release(l, t) == IF l = t THEN 0 ELSE l

\* a c0 task whose cancellation was requested unwinds at its suspension
\* point, releasing the lock if it holds it
C0Unwind(t) ==
    /\ tasks[t].pc \in Running
    /\ tasks[t].cancelReq
    /\ tasks' = [tasks EXCEPT ![t].pc = "cancelled", ![t].sentAtStop = Len(sent)]
    /\ lock' = Release(lock, t)
    /\ UNCHANGED <<Q, incoming, event, warned, task, c1pc, c1item, c2pc, sent,
                   fails, notSup>>

SupNext ==
    \/ \E manual \in BOOLEAN : CompFunc(manual)
    \/ C1Get
    \/ C1Set
    \/ C2Wake
    \/ C2Resume
    \/ \E t \in DOMAIN tasks : C0Start(t)
    \/ \E t \in DOMAIN tasks : C0Finish(t)
    \/ \E t \in DOMAIN tasks : C0Unwind(t)

\* a buggy loop body: no with_suppress, the exception ends the coroutine
NotSuppressed(pc) == "dead"

\* with with_suppress() inside while True: the exception is logged and the
\* loop goes on with its next iteration, at position pc
Suppressed(pc) == pc

\* the body of c0 raises (context, interrupt, collect, trans or complete):
\* the lock is released, with_suppress logs the exception, the task ends
C0Fail(t) ==
    /\ Len(fails) < MaxFailures
    /\ tasks[t].pc = "body"
    /\ ~tasks[t].cancelReq
    /\ tasks' = [tasks EXCEPT ![t].pc = "done", ![t].sentAtStop = Len(sent)]
    /\ lock' = 0
    /\ fails' = Append(fails, Len(sent))
    /\ UNCHANGED <<Q, incoming, event, warned, task, c1pc, c1item, c2pc, sent,
                   notSup>>

\* an iteration of c2 raises in await cancel(task): the rest of the
\* iteration, create_task included, is skipped
C2Fail ==
    /\ Len(fails) < MaxFailures
    /\ c2pc = "cancel"
    /\ c2pc' = Suppressed("wait")
    /\ fails' = Append(fails, Len(sent))
    /\ UNCHANGED <<Q, incoming, event, lock, warned, task, tasks, c1pc, c1item,
                   sent, notSup>>

\* the supervisor with failures
SupFailNext ==
    \/ SupNext
    \/ \E t \in DOMAIN tasks : C0Fail(t)
    \/ C2Fail

\* -------------------------------------------------------- reply correlator
\* the channels (method names) and the producers (LSP client names)
Methods == {"lsp_comp", "lsp_resolve"}

Clients == {"ls1"}

\* _Session(uid, done, acc)
Session(uid, done, acc) == [uid |-> uid, done |-> done, acc |-> acc]

\* _STATE's default factory: _Session(uid=-1, done=True, acc=())
DefaultSession == Session(-1, TRUE, <<>>)

\* _Payload(method, uid, client, done, reply); the reply value is identified
\* by the ordinal of the notification that carries it and by the uid of the
\* request it answers
Payloads ==
    {[method |-> m, uid |-> u, client |-> cl, done |-> d,
      reply |-> <<nNotes + 1, u>>] :
        m \in Methods, u \in -1 .. UIDS, cl \in Clients, d \in BOOLEAN}

ReqInit ==
    /\ UIDS = 0
    /\ Sessions = [m \in Methods |-> DefaultSession]
    /\ cons = <<>>
    /\ nNotes = 0
    /\ stale = {}

\* a buggy counter: the same value is handed out again
NextUidStuck(u) == u

\* next(_UIDS) advances the counter by one
NextUid(u) == u + 1

\* cond.notify_all(): every generator waiting on the method's condition
\* becomes ready to re-inspect the session
NotifyAll(cs, m) ==
    [c \in DOMAIN cs |->
        IF cs[c].method = m /\ cs[c].pc = "waiting"
        THEN [cs[c] EXCEPT !.pc = "inspect"]
        ELSE cs[c]]

\* a buggy open: the pairs accumulated for the previous epoch are kept
OpenSessionKeepsAcc(uid, ses) == Session(uid, FALSE, ses.acc)

\* async_request: _STATE[method] = _Session(uid=uid, done=done, acc=());
\* nothing of the previous session ses is kept
OpenSession(uid, ses) == Session(uid, FALSE, <<>>)

\* async_request up to the await of async_call: uid, done = next(_UIDS),
\* False; the session of the method is replaced; the waiters are notified
AsyncRequest(m) ==
    /\ Len(cons) < MaxOpens
    /\ UIDS' = NextUid(UIDS)
    /\ Sessions' = [Sessions EXCEPT ![m] = OpenSession(UIDS, Sessions[m])]
    /\ cons' = Append(NotifyAll(cons, m),
                      [method |-> m, uid |-> UIDS, done |-> FALSE,
                       pc |-> "dispatch", acc |-> DefaultSession, idx |-> 0,
                       out |-> <<>>])
    /\ UNCHANGED <<nNotes, stale, notReq>>

\* async_request: await async_call(nvim, cont) returns, the request is sent
Dispatch(c) ==
    /\ cons[c].pc = "dispatch"
    /\ cons' = [cons EXCEPT ![c].pc = "inspect"]
    /\ UNCHANGED <<UIDS, Sessions, nNotes, stale, notReq>>

\* a buggy acceptance test: replies of superseded epochs are accepted too
AcceptsStale(p, ses) == p.uid <= ses.uid

\* _lsp_notify.cont: payload.uid == acc.uid
Accepts(p, ses) == p.uid = ses.uid

\* a buggy ingest: the accepted pair replaces the accumulated ones
IngestReplace(p, ses) ==
    IF Accepts(p, ses)
    THEN Session(p.uid, p.done, <<<<p.client, p.reply>>>>)
    ELSE ses

\* _lsp_notify.cont: the session after the payload
Ingest(p, ses) ==
    IF Accepts(p, ses)
    THEN Session(p.uid, p.done, Append(ses.acc, <<p.client, p.reply>>))
    ELSE ses

\* _lsp_notify: the scheduled cont runs; the payload is ingested and the
\* waiters of its method are notified
LspNotify(p) ==
    /\ nNotes < MaxNotify
    /\ Sessions' = [Sessions EXCEPT ![p.method] = Ingest(p, Sessions[p.method])]
    /\ cons' = NotifyAll(cons, p.method)
    /\ nNotes' = nNotes + 1
    /\ stale' = IF p.uid < Sessions[p.method].uid
                THEN stale \cup {<<p.method, p.reply[1]>>}
                ELSE stale
    /\ UNCHANGED <<UIDS, notReq>>

\* async_request after the for loop: if done: break; else wait on the
\* condition. done is the local set to False at the call.
AfterLoop(g) ==
    IF g.done THEN [g EXCEPT !.pc = "ended"] ELSE [g EXCEPT !.pc = "waiting"]

\* async_request, head of the while loop: acc = _STATE[method]; up to the
\* first yield, the break or the wait
InspectStep(g, ses) ==
    IF ses.uid = g.uid
    THEN IF ses.acc # <<>>
         THEN [g EXCEPT !.acc = ses, !.idx = 1, !.pc = "yield",
                        !.out = Append(g.out, ses.acc[1])]
         ELSE AfterLoop([g EXCEPT !.acc = ses, !.idx = 0])
    ELSE IF ses.uid > g.uid
         THEN [g EXCEPT !.acc = ses, !.idx = 0, !.pc = "ended"]
         ELSE [g EXCEPT !.acc = ses, !.idx = 0, !.pc = "waiting"]

Inspect(c) ==
    /\ cons[c].pc = "inspect"
    /\ cons' = [cons EXCEPT ![c] = InspectStep(cons[c], Sessions[cons[c].method])]
    /\ UNCHANGED <<UIDS, Sessions, nNotes, stale, notReq>>

\* async_request resumed at a yield: the for loop goes on over the session
\* read at the head of the loop
ResumeStep(g) ==
    IF g.idx < Len(g.acc.acc)
    THEN [g EXCEPT !.idx = g.idx + 1,
                   !.out = Append(g.out, g.acc.acc[g.idx + 1])]
    ELSE AfterLoop(g)

Resume(c) ==
    /\ cons[c].pc = "yield"
    /\ cons' = [cons EXCEPT ![c] = ResumeStep(cons[c])]
    /\ UNCHANGED <<UIDS, Sessions, nNotes, stale, notReq>>

ReqNext ==
    \/ \E m \in Methods : AsyncRequest(m)
    \/ \E p \in Payloads : LspNotify(p)
    \/ \E c \in DOMAIN cons : Dispatch(c)
    \/ \E c \in DOMAIN cons : Inspect(c)
    \/ \E c \in DOMAIN cons : Resume(c)

\* ------------------------------------------------------------ resolve flow
\* the uids of the metrics a completion can be selected from
MetricUids == {1, 2}

\* a Metric as far as _resolve reads and writes it: the completion's uid, the
\* kind of its extern, and where its secondary_edits come from
Metric(uid, extern, edits) == [uid |-> uid, extern |-> extern, edits |-> edits]

Metrics == {Metric(u, e, "own") : u \in MetricUids, e \in {"lsp", "path"}}

ResInit ==
    /\ lru = {}
    /\ rcalls = 0
    /\ rpc = "idle"
    /\ rmetric = None
    /\ rtask = "none"
    /\ rraised = FALSE
    /\ clock = 0
    /\ rresult = None

\* the collaborator that owns the cache stores the completion of a uid
CachePut(u) ==
    /\ u \notin lru
    /\ lru' = lru \cup {u}
    /\ UNCHANGED <<rcalls, rpc, rmetric, rtask, rraised, clock, rresult, notRes>>

\* _resolve up to its first suspension: not an ExternLSP -> the metric;
\* a cache hit -> the metric with the cached secondary_edits; a miss -> the
\* request task is started and asyncio.wait entered
ResolveCall(metric) ==
    /\ rpc \in {"idle", "returned", "raised"}
    /\ rcalls < MaxResolves
    /\ rcalls' = rcalls + 1
    /\ rmetric' = metric
    /\ rraised' = FALSE
    /\ clock' = 0
    /\ IF metric.extern # "lsp"
       THEN rpc' = "returned" /\ rresult' = metric /\ rtask' = "none"
       ELSE IF metric.uid \in lru
            THEN /\ rpc' = "returned"
                 /\ rresult' = Metric(metric.uid, metric.extern, "cache")
                 /\ rtask' = "none"
            ELSE rpc' = "wait" /\ rresult' = None /\ rtask' = "pending"
    /\ UNCHANGED <<lru, notRes>>

\* time passes while _resolve is inside asyncio.wait
Tick ==
    /\ rpc = "wait"
    /\ clock < ResolveTimeout
    /\ clock' = clock + 1
    /\ UNCHANGED <<lru, rcalls, rpc, rmetric, rtask, rraised, rresult, notRes>>

\* a wrapper that hands the failure of the coroutine on to the task
GoOutcomeFails(o) == IF o = "raise" THEN "failed" ELSE o

\* what the task started by go() ends with when the resolve coroutine ends
\* with a completion ("comp"), with None ("nil") or by raising ("raise"):
\* the wrapper logs a failure and the task ends with None
GoOutcome(o) == IF o = "raise" THEN "nil" ELSE o

\* the request task ends by itself while it is pending
TaskEnds(o) ==
    /\ rtask = "pending"
    /\ rtask' = GoOutcome(o)
    /\ rraised' = (o = "raise")
    /\ UNCHANGED <<lru, rcalls, rpc, rmetric, clock, rresult, notRes>>

\* a buggy deadline: asyncio.wait gives up at once
WaitExpiredAtOnce(c) == TRUE

\* asyncio.wait(..., timeout=resolve_timeout): the deadline has elapsed
WaitExpired(c) == c >= ResolveTimeout

\* asyncio.wait returns (done, not_done): the task has ended, or the
\* deadline elapsed with the task pending; then cancel(gather(*not_done))
WaitReturns ==
    /\ rpc = "wait"
    /\ IF rtask = "pending"
       THEN /\ WaitExpired(clock)
            /\ rtask' = "cancelling"
            /\ rpc' = "cancel"
       ELSE /\ rpc' = "await"
            /\ UNCHANGED rtask
    /\ UNCHANGED <<lru, rcalls, rmetric, rraised, clock, rresult, notRes>>

\* the cancelled request task unwinds
TaskUnwinds ==
    /\ rtask = "cancelling"
    /\ rtask' = "cancelled"
    /\ UNCHANGED <<lru, rcalls, rpc, rmetric, rraised, clock, rresult, notRes>>

\* a buggy ending: comp is used without the test for None
ResolveEndNoTest(metric, outcome) ==
    IF outcome = "comp"
    THEN [pc |-> "returned", result |-> Metric(metric.uid, metric.extern, "reply")]
    ELSE [pc |-> "raised", result |-> None]

\* comp = (await done.pop()) if done else None; if not comp: return metric;
\* else the metric with comp's secondary_edits. Awaiting a task that ended
\* with an exception raises it.
ResolveEnd(metric, outcome) ==
    IF outcome = "failed"
    THEN [pc |-> "raised", result |-> None]
    ELSE IF outcome = "comp"
         THEN [pc |-> "returned",
               result |-> Metric(metric.uid, metric.extern, "reply")]
         ELSE [pc |-> "returned", result |-> metric]

\* _resolve after asyncio.wait, the task having ended before the deadline
ResolveAwaits ==
    /\ rpc = "await"
    /\ rpc' = ResolveEnd(rmetric, rtask).pc
    /\ rresult' = ResolveEnd(rmetric, rtask).result
    /\ UNCHANGED <<lru, rcalls, rmetric, rtask, rraised, clock, notRes>>

\* _resolve after the timeout: await cancel(...) has returned, done is empty
ResolveTimesOut ==
    /\ rpc = "cancel"
    /\ rtask = "cancelled"
    /\ rpc' = ResolveEnd(rmetric, "none").pc
    /\ rresult' = ResolveEnd(rmetric, "none").result
    /\ UNCHANGED <<lru, rcalls, rmetric, rtask, rraised, clock, notRes>>

ResNext ==
    \/ \E u \in MetricUids : CachePut(u)
    \/ \E metric \in Metrics : ResolveCall(metric)
    \/ Tick
    \/ \E o \in {"comp", "nil", "raise"} : TaskEnds(o)
    \/ WaitReturns
    \/ TaskUnwinds
    \/ ResolveAwaits
    \/ ResolveTimesOut

\* --------------------------------------------------------- serial executor
\* the threads that call submit
Callers == {1, 2}

\* a buggy construction: _forever is handed to the pool twice
WorkersTwo == {1, 2}

\* __init__: pool.submit(self._forever), once
Workers == {1}

ExeInit ==
    /\ eq = <<>>
    /\ subs = <<>>
    /\ wpc = [w \in Workers |-> "get"]
    /\ wcur = [w \in Workers |-> 0]
    /\ ran = <<>>

\* the callers blocked in fut.result()
Blocked == {subs[i].caller : i \in {j \in DOMAIN subs : subs[j].got = "none"}}

\* submit up to fut.result(): fut = Future(); self._q.put(cont). raises
\* tells whether f, once called, raises an Exception
Submit(c, raises) ==
    /\ Len(subs) < MaxSubmits
    /\ c \notin Blocked
    /\ subs' = Append(subs, [caller |-> c, raises |-> raises, fut |-> "pending",
                             of |-> 0, got |-> "none"])
    /\ eq' = Append(eq, Len(subs) + 1)
    /\ UNCHANGED <<wpc, wcur, ran, notExe>>

\* _forever: f = self._q.get(); the call f() begins
WorkerGet(w) ==
    /\ wpc[w] = "get"
    /\ eq # <<>>
    /\ wcur' = [wcur EXCEPT ![w] = QPop(eq).item]
    /\ eq' = QPop(eq).rest
    /\ wpc' = [wpc EXCEPT ![w] = "run"]
    /\ ran' = Append(ran, QPop(eq).item)
    /\ UNCHANGED <<subs, notExe>>

\* a buggy cont: no try/except, the exception leaves _forever
ContNoCatch(raises) ==
    IF raises THEN [fut |-> "pending", next |-> "dead"]
    ELSE [fut |-> "result", next |-> "get"]

\* cont: fut.set_exception(e) when f raises an Exception, else
\* fut.set_result(ret); either way cont returns to _forever
Cont(raises) ==
    IF raises THEN [fut |-> "exception", next |-> "get"]
    ELSE [fut |-> "result", next |-> "get"]

\* _forever: the call f() ends; cont has settled its own future with the
\* outcome of its own f
WorkerDone(w) ==
    /\ wpc[w] = "run"
    /\ subs' = [subs EXCEPT ![wcur[w]].fut = Cont(subs[wcur[w]].raises).fut,
                            ![wcur[w]].of = wcur[w]]
    /\ wpc' = [wpc EXCEPT ![w] = Cont(subs[wcur[w]].raises).next]
    /\ wcur' = [wcur EXCEPT ![w] = 0]
    /\ UNCHANGED <<eq, ran, notExe>>

\* submit: fut.result() returns the result or raises the exception
Return(i) ==
    /\ subs[i].got = "none"
    /\ subs[i].fut # "pending"
    /\ subs' = [subs EXCEPT ![i].got = subs[i].fut]
    /\ UNCHANGED <<eq, wpc, wcur, ran, notExe>>

ExeNext ==
    \/ \E c \in Callers, raises \in BOOLEAN : Submit(c, raises)
    \/ \E w \in Workers : WorkerGet(w)
    \/ \E w \in Workers : WorkerDone(w)
    \/ \E i \in DOMAIN subs : Return(i)

\* -------------------------------------------------------- gating predicate
\* the characters of cur.line_before and cur.syms_before
Chars == {"a", " ", "\t"}

\* the characters str.rstrip() removes
Whitespace == {" ", "\t"}

Strings(n) == UNION {[1 .. k -> Chars] : k \in 0 .. n}

\* state.last_edit.comp.extern: an ExternPath (with is_dir), an ExternLSP,
\* or None
Externs ==
    {[kind |-> "ExternPath", is_dir |-> b] : b \in BOOLEAN}
        \cup {[kind |-> "ExternLSP", is_dir |-> FALSE],
              [kind |-> "None", is_dir |-> FALSE]}

\* the fields of State and Context that _should_cont reads
GateInputs ==
    [manual : BOOLEAN,
     prev_change_id : {1, 2},
     change_id : {1, 2},
     position : {<<0, 0>>, <<0, 1>>},
     inserted_pos : {<<-1, -1>>, <<0, 1>>},
     extern : Externs,
     syms_before : {<<>>, <<"a">>},
     line_before : Strings(MaxLen)]

\* no call of _should_cont is under way
GateIdle ==
    /\ gin = None
    /\ gout = [called |-> FALSE, ret |-> FALSE]

GateInit ==
    /\ gin \in GateInputs
    /\ gout = [called |-> FALSE, ret |-> FALSE]

\* str.rstrip(): the trailing whitespace is removed
RECURSIVE Rstrip(_)
Rstrip(l) ==
    IF l = <<>> THEN l
    ELSE IF l[Len(l)] \in Whitespace THEN Rstrip(SubSeq(l, 1, Len(l) - 1))
    ELSE l

\* a buggy predicate: the change_id test comes before the manual test
ShouldContIdFirst(i) ==
    IF i.prev_change_id = i.change_id THEN FALSE
    ELSE IF i.manual THEN TRUE
    ELSE IF i.position = i.inserted_pos
    THEN IF i.extern.kind = "ExternPath" THEN i.extern.is_dir ELSE FALSE
    ELSE IF i.syms_before # <<>> THEN TRUE
    ELSE /\ Rstrip(i.line_before) # <<>>
         /\ Len(i.line_before) - Len(Rstrip(i.line_before)) <= 1

\* _should_cont(state, prev, cur)
ShouldCont(i) ==
    IF i.manual THEN TRUE
    ELSE IF i.prev_change_id = i.change_id THEN FALSE
    ELSE IF i.position = i.inserted_pos
    THEN IF i.extern.kind = "ExternPath" THEN i.extern.is_dir ELSE FALSE
    ELSE IF i.syms_before # <<>> THEN TRUE
    ELSE /\ Rstrip(i.line_before) # <<>>
         /\ Len(i.line_before) - Len(Rstrip(i.line_before)) <= 1

\* c0: should = _should_cont(s, prev=s.context, cur=ctx)
ShouldContCall ==
    /\ ~gout.called
    /\ gout' = [called |-> TRUE, ret |-> ShouldCont(gin)]
    /\ UNCHANGED <<gin, notGate>>

GateNext == ShouldContCall

\* -------------------------------------------------------- completion cycle
\* c0 has not been started, or has ended
CycIdle ==
    [pc |-> "idle", ctx |-> 0, fast |-> FALSE, collected |-> FALSE,
     cleared |-> FALSE, atJoin |-> -1]

CycInit ==
    /\ stChange = 0
    /\ cyc = CycIdle
    /\ ncyc = 0
    /\ shown = <<>>

\* complete(nvim, stack=stack, col=col, comps=...): the candidates shown,
\* "none" for comps=() and "metrics" for the transformed metrics of ctx
Complete(comps) ==
    Append(shown, [comps |-> comps, cycle |-> ncyc, ctx |-> cyc.ctx,
                   atJoin |-> cyc.atJoin])

\* the buffer is edited: the shared State gets a new change_id
Edit ==
    /\ stChange < MaxEdits
    /\ stChange' = stChange + 1
    /\ UNCHANGED <<cyc, ncyc, shown, notCyc>>

\* c0 is started and awaits async_call(nvim, context(...)); fast is
\* stack.settings.display.pum.fast_close
CycStart(fast) ==
    /\ cyc.pc = "idle"
    /\ ncyc < MaxCycles
    /\ ncyc' = ncyc + 1
    /\ cyc' = [CycIdle EXCEPT !.pc = "context", !.fast = fast]
    /\ UNCHANGED <<stChange, shown, notCyc>>

\* ctx is returned with the change_id id of the State of the trigger;
\* should is the result of _should_cont: state(context=ctx) and the await
\* of interrupt(), or the await of the clearing complete
CycContext(id, should) ==
    /\ cyc.pc = "context"
    /\ cyc' = [cyc EXCEPT !.ctx = id,
                          !.pc = IF should THEN "interrupt" ELSE "clearonly"]
    /\ UNCHANGED <<stChange, ncyc, shown, notCyc>>

\* await stack.supervisor.interrupt() returns; gather starts collect(ctx)
\* and the clearing complete (fast_close) or sleep(0)
CycInterrupted ==
    /\ cyc.pc = "interrupt"
    /\ cyc' = [cyc EXCEPT !.pc = "gather"]
    /\ UNCHANGED <<stChange, ncyc, shown, notCyc>>

\* gather, first half: stack.supervisor.collect(ctx) returns the metrics
CycCollect ==
    /\ cyc.pc = "gather"
    /\ ~cyc.collected
    /\ cyc' = [cyc EXCEPT !.collected = TRUE]
    /\ UNCHANGED <<stChange, ncyc, shown, notCyc>>

\* gather, second half: complete(comps=()) with fast_close, else sleep(0)
CycClear ==
    /\ cyc.pc = "gather"
    /\ ~cyc.cleared
    /\ cyc' = [cyc EXCEPT !.cleared = TRUE]
    /\ shown' = IF cyc.fast THEN Complete("none") ELSE shown
    /\ UNCHANGED <<stChange, ncyc, notCyc>>

\* a buggy test: the metrics are displayed whatever the change_id
StillCurrentAlways(sid, cid) == TRUE

\* s.change_id == ctx.change_id
StillCurrent(sid, cid) == sid = cid

\* gather returns; s = state(); with an unchanged change_id the metrics are
\* transformed and c0 awaits the displaying complete, else c0 ends
CycCheck ==
    /\ cyc.pc = "gather"
    /\ cyc.collected
    /\ cyc.cleared
    /\ cyc' = [cyc EXCEPT !.atJoin = stChange,
                          !.pc = IF StillCurrent(stChange, cyc.ctx)
                                 THEN "display" ELSE "idle"]
    /\ UNCHANGED <<stChange, ncyc, shown, notCyc>>

\* complete(comps=vim_comps) runs; c0 ends
CycDisplay ==
    /\ cyc.pc = "display"
    /\ shown' = Complete("metrics")
    /\ cyc' = [cyc EXCEPT !.pc = "idle"]
    /\ UNCHANGED <<stChange, ncyc, notCyc>>

\* not should: complete(comps=()) runs, state(inserted_pos=(-1, -1)); c0
\* ends
CycClearOnly ==
    /\ cyc.pc = "clearonly"
    /\ shown' = Complete("none")
    /\ cyc' = [cyc EXCEPT !.pc = "idle"]
    /\ UNCHANGED <<stChange, ncyc, notCyc>>

\* c0 is cancelled by c2 at one of its awaits and unwinds
CycCancel ==
    /\ cyc.pc \in {"context", "interrupt", "gather", "display", "clearonly"}
    /\ cyc' = [cyc EXCEPT !.pc = "idle"]
    /\ UNCHANGED <<stChange, ncyc, shown, notCyc>>

CycNext ==
    \/ Edit
    \/ \E fast \in BOOLEAN : CycStart(fast)
    \/ \E id \in 0 .. stChange, should \in BOOLEAN : CycContext(id, should)
    \/ CycInterrupted
    \/ CycCollect
    \/ CycClear
    \/ CycCheck
    \/ CycDisplay
    \/ CycClearOnly
    \/ CycCancel

\* ---------------------------------------------------------- specifications
Init ==
    SupInit /\ ReqInit /\ ResInit /\ ExeInit /\ GateIdle /\ CycInit

\* the supervisor alone
SupSpec == Init /\ [][SupNext]_vars

\* the event loop runs every task that is ready, the worker thread returns
\* from _Q.get when an item is there, and a cancelled task unwinds
SupFair ==
    /\ WF_vars(C1Get)
    /\ WF_vars(C1Set)
    /\ WF_vars(C2Wake)
    /\ WF_vars(C2Resume)
    /\ WF_vars(\E t \in DOMAIN tasks : C0Unwind(t))

SupFairSpec == Init /\ [][SupNext]_vars /\ SupFair

\* the reply correlator alone
ReqSpec == Init /\ [][ReqNext]_vars

\* the resolve flow alone
ResSpec == Init /\ [][ResNext]_vars

\* time passes, the event loop runs _resolve when it is ready, and the
\* cancelled request task unwinds
ResFair ==
    /\ WF_vars(Tick)
    /\ WF_vars(WaitReturns)
    /\ WF_vars(TaskUnwinds)
    /\ WF_vars(ResolveAwaits)
    /\ WF_vars(ResolveTimesOut)

ResFairSpec == Init /\ [][ResNext]_vars /\ ResFair

\* the supervisor with failures, the loops and the cancelled tasks scheduled
SupFailSpec == Init /\ [][SupFailNext]_vars /\ SupFair

\* _should_cont applied to every input
GateCall ==
    SupInit /\ ReqInit /\ ResInit /\ ExeInit /\ GateInit /\ CycInit

GateSpec == GateCall /\ [][GateNext]_vars

\* the completion cycle alone
CycSpec == Init /\ [][CycNext]_vars

\* the serial executor alone
ExeSpec == Init /\ [][ExeNext]_vars

\* the worker thread and the blocked callers are scheduled
ExeFair ==
    /\ WF_vars(\E w \in Workers : WorkerGet(w))
    /\ WF_vars(\E w \in Workers : WorkerDone(w))
    /\ WF_vars(\E i \in DOMAIN subs : Return(i))

ExeFairSpec == Init /\ [][ExeNext]_vars /\ ExeFair


\* ------------------------------------------------- supervisor properties
RunningTasks == {t \in DOMAIN tasks : tasks[t].pc \in Running}

LastTask == tasks[Len(tasks)]

LastSent == sent[Len(sent)]

\* C1 (single-flight): at most one c0 task is Running in every reachable
\* state, and c2 creates a task only when it has requested the cancellation
\* of the previous one, awaited it, and that task has terminated.
C1_SingleFlight ==
    /\ [](Cardinality(RunningTasks) <= 1)
    /\ [][(Len(tasks') > Len(tasks) /\ tasks # <<>>)
            => (c2pc = "cancel" /\ LastTask.pc \in Terminated)]_vars

\* C1 witness: the first task was cancelled while running and the second
\* task is running its body
C1_Witness ==
    /\ Len(tasks) >= 2
    /\ tasks[1].pc = "cancelled"
    /\ tasks[1].cancelReq
    /\ tasks[2].pc = "body"

\* C2 (latest trigger wins): once the triggers have stopped, the supervisor
\* reaches, and stays in, a state where the last task it started carries the
\* (state, manual) data of the last trigger enqueued and the supervisor has
\* not requested that task's cancellation.
C2_LatestWins ==
    <>[](sent # <<>> =>
            /\ tasks # <<>>
            /\ LastTask.s = LastSent.s
            /\ LastTask.manual = LastSent.manual
            /\ ~LastTask.cancelReq)

\* C2 witness: a burst of three triggers has been coalesced into fewer tasks,
\* the supervisor is idle again and the last task carries the last trigger
C2_Witness ==
    /\ Len(sent) >= 3
    /\ Len(tasks) < Len(sent)
    /\ Q = <<>> /\ c1pc = "get" /\ ~event /\ c2pc = "wait"
    /\ LastTask.s = LastSent.s
    /\ LastTask.manual = LastSent.manual
    /\ ~LastTask.cancelReq

\* C3 (debounce coalescing): T1, T2, T3 are enqueued in that order from the
\* idle state; if T2 and T3 were both enqueued before the cancellation of
\* T1's task completed, the next task carries T3's data and no task is ever
\* started with T2's data.
C3_Coalesce ==
    (/\ Len(sent) = 3
     /\ tasks # <<>>
     /\ tasks[1].s = sent[1].s
     /\ tasks[1].pc = "cancelled"
     /\ tasks[1].sentAtStop = 3)
    => /\ \A t \in DOMAIN tasks : tasks[t].s # sent[2].s
       /\ Len(tasks) >= 2 => tasks[2].s = sent[3].s

\* ------------------------------------------------- correlator properties
\* the ordinals of the replies a generator has yielded, in order
Yielded(c) == [i \in DOMAIN cons[c].out |-> cons[c].out[i][2][1]]

\* C4 (epoch monotonicity): the epochs of any two opens differ, a later
\* open on a channel has a strictly greater epoch than every earlier open on
\* it, and the open stores that epoch in the channel's Session.
C4_EpochMonotonic ==
    /\ [](\A i, j \in DOMAIN cons :
            i < j => /\ cons[i].uid # cons[j].uid
                     /\ cons[i].method = cons[j].method
                          => cons[i].uid < cons[j].uid)
    /\ [][Len(cons') > Len(cons)
            => LET g == cons'[Len(cons')]
               IN  /\ Sessions'[g.method].uid = g.uid
                   /\ \A i \in DOMAIN cons :
                        cons[i].method = g.method => cons[i].uid < g.uid]_vars

\* C4 witness: two opens on one channel, the session holds the later epoch
C4_Witness ==
    /\ Len(cons) >= 2
    /\ cons[1].method = cons[2].method
    /\ Sessions[cons[2].method].uid = cons[2].uid

\* C5 (stale rejection): a reply ingested with a uid below the uid of its
\* channel's Session at that moment is never yielded by any generator on
\* that channel.
C5_StaleRejected ==
    \A c \in DOMAIN cons : \A i \in DOMAIN cons[c].out :
        <<cons[c].method, Yielded(c)[i]>> \notin stale

\* C5 witness: a stale reply was ingested on a channel and a generator on
\* that channel has yielded a reply ingested after it
C5_Witness ==
    \E c \in DOMAIN cons : \E i \in DOMAIN cons[c].out : \E x \in stale :
        x[1] = cons[c].method /\ x[2] < Yielded(c)[i]

\* C6 (supersession abort): once the Session of its channel holds a greater
\* epoch, a generator yields no further item.
C6_SupersessionAbort ==
    [][\A c \in DOMAIN cons :
          Sessions[cons[c].method].uid > cons[c].uid
            => cons'[c].out = cons[c].out]_vars

\* C7 (termination on done): a generator that has read, for its own epoch,
\* a Session with done = TRUE ends and does not go on to wait on the
\* condition.
C7_DoneTerminates ==
    \A c \in DOMAIN cons :
        ~(/\ cons[c].pc = "waiting"
          /\ cons[c].acc.uid = cons[c].uid
          /\ cons[c].acc.done)

\* C8 (exactly-once, in-order): a generator yields every reply at most once
\* and in the order of ingestion.
C8_ExactlyOnce ==
    \A c \in DOMAIN cons : \A i, j \in DOMAIN cons[c].out :
        i < j => Yielded(c)[i] < Yielded(c)[j]

C10_TimeoutFallback ==
    /\ [](rtask \in {"cancelling", "cancelled"} => clock >= ResolveTimeout)
    /\ [](rpc = "returned" => rtask \notin {"pending", "cancelling"})
    /\ []((rpc = "returned" /\ rtask = "cancelled") => rresult = rmetric)
    /\ (rpc = "wait") ~> (rpc \in {"returned", "raised"})

\* C10 witness: no reply arrived, the deadline elapsed, the task was
\* cancelled and _resolve returned the metric unchanged
C10_Witness ==
    /\ rpc = "returned"
    /\ rtask = "cancelled"
    /\ clock = ResolveTimeout
    /\ rresult = rmetric

\* --------------------------------------------------- executor properties
\* C11 (executor ordering): at most one submitted function runs at a time,
\* the functions are started in exactly the order of their enqueueing, and
\* every settled future, and every submitter that returned, holds the
\* outcome of its own function.
C11_ExecutorOrdering ==
    /\ Cardinality({w \in Workers : wpc[w] = "run"}) <= 1
    /\ \A k \in DOMAIN ran : ran[k] = k
    /\ \A i \in DOMAIN subs :
        /\ subs[i].fut # "pending" => subs[i].of = i
        /\ subs[i].got # "none" => subs[i].got = subs[i].fut /\ subs[i].of = i

\* C11 witness: two callers had submissions queued together and both were
\* run and returned
C11_Witness ==
    /\ Len(ran) >= 2
    /\ subs[1].caller # subs[2].caller
    /\ subs[1].got # "none"
    /\ subs[2].got # "none"

\* C12 (executor failure isolation): a future holds an exception exactly
\* when its own function raised, a submitter gets an exception only from
\* its own function, no worker ever leaves _forever, and every submission
\* is eventually executed and its submitter unblocked.
C12_FailureIsolation ==
    /\ [](\A i \in DOMAIN subs :
            /\ subs[i].fut = "exception" => subs[i].raises
            /\ subs[i].fut = "result" => ~subs[i].raises
            /\ subs[i].got = "exception" => subs[i].raises /\ subs[i].of = i)
    /\ [](\A w \in Workers : wpc[w] # "dead")
    /\ \A i \in 1 .. MaxSubmits :
        (Len(subs) >= i) ~> (Len(subs) >= i /\ subs[i].got # "none")

\* C12 witness: a function raised, its submitter got the exception, and a
\* submission enqueued after it returned its result
C12_Witness ==
    /\ Len(subs) >= 2
    /\ subs[1].raises /\ subs[1].got = "exception"
    /\ ~subs[2].raises /\ subs[2].got = "result"

\* ------------------------------------------- supervisor failure properties
\* the number of triggers that had been sent when the last failure was raised
LastFail == IF fails = <<>> THEN 0 ELSE fails[Len(fails)]

\* C13 (supervisor survival): a failure raised inside a c0 task or inside an
\* iteration of c2 never ends c1 or c2, and every trigger enqueued
\* after the failure leads to a new c0 task being started with that trigger
\* or a later one (unless a further failure is raised after the trigger).
C13_SupervisorSurvival ==
    /\ [](c1pc # "dead" /\ c2pc # "dead")
    /\ \A k \in 1 .. MaxTriggers :
        (fails # <<>> /\ Len(sent) >= k /\ LastFail < k)
            ~> ((\E t \in DOMAIN tasks : tasks[t].s >= k) \/ LastFail >= k)

\* C13 witness: a failure was raised, a trigger was enqueued after it and a
\* task was started with that trigger
C13_Witness ==
    /\ fails # <<>>
    /\ \E t \in DOMAIN tasks : tasks[t].s > LastFail

\* ----------------------------------------------- gating predicate property
\* C14 (gating predicate): _should_cont returns true if cur.manual; else
\* false if prev.change_id equals cur.change_id; else, at the inserted
\* position, true exactly when the last edit's extern is a path completion
\* that is a directory; else true if cur.syms_before is non-empty; else true
\* exactly when cur.line_before has a non-whitespace character and ends with
\* at most one whitespace character.
C14_GatingPredicate ==
    gout.called =>
        LET same == gin.prev_change_id = gin.change_id
            atIns == gin.position = gin.inserted_pos
            line == gin.line_before
            trailing ==
                Cardinality({k \in DOMAIN line :
                    \A j \in k .. Len(line) : line[j] \in Whitespace})
            typed ==
                /\ \E k \in DOMAIN line : line[k] \notin Whitespace
                /\ trailing <= 1
        IN  /\ gin.manual => gout.ret
            /\ ~gin.manual /\ same => ~gout.ret
            /\ ~gin.manual /\ ~same /\ atIns =>
                (gout.ret <=>
                    gin.extern.kind = "ExternPath" /\ gin.extern.is_dir)
            /\ ~gin.manual /\ ~same /\ ~atIns /\ gin.syms_before # <<>> =>
                gout.ret
            /\ ~gin.manual /\ ~same /\ ~atIns /\ gin.syms_before = <<>> =>
                (gout.ret <=> typed)

\* C14 witness: the last case, a character typed after exactly one space
C14_Witness ==
    /\ gout.called
    /\ gout.ret
    /\ ~gin.manual
    /\ gin.prev_change_id # gin.change_id
    /\ gin.position # gin.inserted_pos
    /\ gin.syms_before = <<>>
    /\ gin.line_before = <<"a", " ">>

\* ------------------------------------------- correlator wake-up properties
\* C15 (no lost wakeup): a consumer that is parked on the condition of its
\* channel has observed every reply ingested so far for its epoch, when
\* that epoch is still the channel's current one; no further ingest or open
\* is needed to wake it.
C15_NoLostWakeup ==
    \A c \in DOMAIN cons :
        (cons[c].pc = "waiting" /\ Sessions[cons[c].method].uid = cons[c].uid)
            => \A k \in DOMAIN Sessions[cons[c].method].acc :
                \E j \in DOMAIN cons[c].out :
                    cons[c].out[j] = Sessions[cons[c].method].acc[k]

\* --------------------------------------- supervisor consumption properties
\* C16 (trigger consumption): the trigger a c0 task is started from is
\* consumed, so no two c0 tasks are started from the same trigger enqueued
\* by comp_func.
C16_TriggerConsumed ==
    \A t1, t2 \in DOMAIN tasks : tasks[t1].s = tasks[t2].s => t1 = t2

\* ------------------------------------------- correlator ingest properties
\* C17 (ingest acceptance and frame): a _lsp_notify step whose payload has
\* the epoch of its channel's current Session appends exactly the pair
\* (client, reply) at the end of the accumulated sequence, keeps the epoch,
\* and leaves no generator of the channel waiting; a step with any other
\* epoch leaves the channel's Session unchanged; either way the Sessions of
\* the other channels are unchanged.
C17_IngestFrame ==
    [][\A p \in Payloads :
        LspNotify(p) =>
            /\ p.uid = Sessions[p.method].uid =>
                /\ Sessions'[p.method].acc
                       = Sessions[p.method].acc \o <<<<p.client, p.reply>>>>
                /\ Sessions'[p.method].uid = Sessions[p.method].uid
                /\ \A c \in DOMAIN cons :
                    (cons[c].method = p.method /\ cons[c].pc = "waiting")
                        => cons'[c].pc = "inspect"
            /\ p.uid # Sessions[p.method].uid =>
                Sessions'[p.method] = Sessions[p.method]
            /\ \A m \in Methods \ {p.method} : Sessions'[m] = Sessions[m]
      ]_vars

\* C17 witness: a matching payload was appended after an earlier pair of an
\* opened epoch
C17_Witness ==
    \E m \in Methods :
        /\ Sessions[m].uid >= 0
        /\ Len(Sessions[m].acc) = 2
        /\ Sessions[m].acc[1] # Sessions[m].acc[2]

\* C18 (done is terminal): once the Session of an opened epoch has done set,
\* done stays set in every step that keeps that epoch the channel's current
\* one.
C18_DoneTerminal ==
    [][\A m \in Methods :
        (Sessions[m].uid >= 0 /\ Sessions[m].done
            /\ Sessions'[m].uid = Sessions[m].uid)
        => Sessions'[m].done
      ]_vars

\* --------------------------------------------- correlator open properties
\* C19 (open resets the channel): an async_request step replaces the
\* channel's Session by one with a new epoch, done false and no accumulated
\* pair, leaves no earlier generator of the channel waiting, and has not yet
\* dispatched the request; and no generator ever yields a reply that
\* answers the request of another epoch than its own.
C19_OpenResets ==
    /\ [][\A m \in Methods :
            AsyncRequest(m) =>
                /\ Sessions'[m].uid > Sessions[m].uid
                /\ ~Sessions'[m].done
                /\ Sessions'[m].acc = <<>>
                /\ \A c \in DOMAIN cons :
                    (cons[c].method = m /\ cons[c].pc = "waiting")
                        => cons'[c].pc = "inspect"
                /\ cons'[Len(cons')].pc = "dispatch"
          ]_vars
    /\ [](\A c \in DOMAIN cons :
            \A j \in DOMAIN cons[c].out :
                cons[c].out[j][2][2] = cons[c].uid)

\* C19 witness: a channel that held a reply was opened again while an
\* earlier generator of it had yielded that reply, and the new generator
\* has yielded a reply of its own epoch
C19_Witness ==
    \E c \in DOMAIN cons :
        /\ cons[c].out # <<>>
        /\ \E b \in DOMAIN cons :
            /\ b < c
            /\ cons[b].method = cons[c].method
            /\ cons[b].out # <<>>

\* ---------------------------------------------- completion cycle property
\* C20 (stale result discard): the candidates computed from the collected
\* metrics are displayed only by a cycle for which, when collection and the
\* optional clear had both completed, the shared state's change identifier
\* was equal to that of the context collected for; a cycle for which it was
\* not displays nothing from that collection.
C20_StaleDiscard ==
    \A k \in DOMAIN shown :
        shown[k].comps = "metrics" => shown[k].atJoin = shown[k].ctx

\* C20 witness: one cycle displayed its metrics, and a later cycle found
\* the change identifier changed after its gather and ended without a
\* display of metrics
C20_Witness ==
    /\ \E k \in DOMAIN shown : shown[k].comps = "metrics" /\ shown[k].cycle = 1
    /\ ncyc = 2
    /\ cyc.pc = "idle"
    /\ cyc.atJoin >= 0
    /\ cyc.atJoin # cyc.ctx
    /\ \A k \in DOMAIN shown : shown[k].comps = "metrics" => shown[k].cycle = 1

\* ------------------------------------------------ supervisor lock property
\* C21 (lock never contended): whenever a c0 task is about to begin, the
\* completion lock is not held by another task; the "SHOULD NOT BE LOCKED"
\* warning is never logged and no task ever waits to acquire the lock, for
\* every interleaving of triggers, cancellations, completions and failures.
C21_LockUncontended ==
    /\ ~warned
    /\ \A t \in DOMAIN tasks :
        /\ tasks[t].pc # "lockwait"
        /\ tasks[t].pc = "new" => lock = 0
        /\ tasks[t].pc = "body" <=> lock = t

\* C21 witness: a task held the lock and ended, the next task was
\* cancelled, and the third task holds the lock
C21_Witness ==
    /\ Len(tasks) >= 3
    /\ tasks[1].pc = "done"
    /\ tasks[2].pc = "cancelled"
    /\ lock = 3

====
